---- MODULE Spec2Model ----
(***************************************************************************)
(* Model of the MCP server kernel of mcp-arch-linux: the JSON-RPC protocol *)
(* state machine (core/mcp-protocol.js), the plugin registry dispatch      *)
(* (core/plugin-manager.js), the argument validator                        *)
(* (plugins/base-plugin.js), the audit kernel                              *)
(* (security/security-manager.js) and the command executor                 *)
(* (system/command-executor.js).                                           *)
(*                                                                         *)
(* Node.js runs one callback at a time: the code between two real          *)
(* suspension points (network I/O, child-process events, timers) is one    *)
(* atomic action here.  Continuations of already settled promises run as   *)
(* microtasks before any other request is taken, so they belong to the     *)
(* action that settled the promise.                                        *)
(***************************************************************************)
EXTENDS Integers, Sequences, FiniteSets, TLC

(***************************************************************************)
(* Bounds of the model.                                                    *)
(***************************************************************************)
\* configured values of security.maxConcurrentOperations range over 1..MaxConfigured
MaxConfigured == 2
\* number of admitted calls whose plugin handler may be running at the same time
MaxInFlight == 3

(***************************************************************************)
(* JavaScript values.  A value is a record tagged with its type; an absent *)
(* member reads as Undefined.                                              *)
(***************************************************************************)
Undefined == [t |-> "undefined"]
Null == [t |-> "null"]
Num(n) == [t |-> "number", n |-> n]
Str(s) == [t |-> "string", s |-> s]
Bool(b) == [t |-> "boolean", b |-> b]
\* an object with named members; props is a function from member names to values
Obj(props) == [t |-> "object", props |-> props]
\* an array; JavaScript's typeof calls it "object"
Arr(items) == [t |-> "array", items |-> items]
EmptyObj == Obj([k \in {} |-> Undefined])

\* JavaScript truthiness: undefined, null, 0, "" and false are falsy
Truthy(v) ==
  CASE v.t = "undefined" -> FALSE
    [] v.t = "null" -> FALSE
    [] v.t = "number" -> v.n # 0
    [] v.t = "string" -> v.s # ""
    [] v.t = "boolean" -> v.b
    [] OTHER -> TRUE

\* the typeof operator
TypeOf(v) ==
  CASE v.t = "null" -> "object"
    [] v.t = "array" -> "object"
    [] OTHER -> v.t

\* member access v[name]: undefined when the member is absent or v is a primitive
Get(v, name) ==
  IF v.t = "object" /\ name \in DOMAIN v.props THEN v.props[name] ELSE Undefined

\* a || b
OrElse(a, b) == IF Truthy(a) THEN a ELSE b

\* destructuring or member access on undefined or null throws a TypeError
Nullish(v) == v.t \in {"undefined", "null"}

(***************************************************************************)
(* Response envelopes (mcp-protocol.js, createResponse / createError).     *)
(***************************************************************************)
\* a response that also carries a null error member
createResponse_WithNullError(result, id) ==
  [jsonrpc |-> "2.0", result |-> result, error |-> Null, id |-> id]

createResponse(result, id) == [jsonrpc |-> "2.0", result |-> result, id |-> id]

createError(code, message, id) ==
  [jsonrpc |-> "2.0", error |-> [code |-> code, message |-> message], id |-> id]

IsError(resp) == "error" \in DOMAIN resp
IsResult(resp) == "result" \in DOMAIN resp
ErrorCode(resp) == IF IsError(resp) THEN resp.error.code ELSE 0

(***************************************************************************)
(* State.                                                                  *)
(***************************************************************************)
VARIABLES
  \* MCPProtocol: the session
  initialized,        \* this.initialized
  clientInfo,         \* this.clientInfo
  \* PluginManager: the registry
  plugins,            \* this.plugins: plugin name -> plugin object
  tools,              \* this.tools: tool name -> [plugin, schema]
  resources,          \* this.resources: uri -> [plugin]
  \* SecurityManager: the audit kernel
  securityConfig,     \* config.security as loaded
  activeOperations,   \* this.activeOperations: operation id -> record
  \* requests in flight and the last thing the protocol layer did
  calls,              \* operation id -> the tools/call or resources/read awaiting its plugin handler
  last,               \* the last request handled and the response it got
  \* CommandExecutor
  execConfig,         \* config.security as given to the executor, and the process uid
  runningProcesses,   \* this.runningProcesses: process id -> child
  exec,               \* per execute() call: its child, its timers and its outcome
  \* PluginManager.register / unregister
  lastReg,            \* the last register or unregister call and the registry before it
  \* the file system the SecurityManager's snapshot store works on
  files,              \* path -> the file there
  snapshots,          \* <snapshotDir>/<id>.json: snapshot id -> what the file holds
  creating,           \* snapshot id -> the createSnapshot call that is writing it
  deleted,            \* the ids whose deleteSnapshot succeeded
  lastSnap,           \* the last snapshot operation that returned, and the files before it
  \* server.js: the process
  server              \* "listening", "closing" (shutdown awaits server.close()) or "exited"

sessionVars == <<initialized, clientInfo>>
registryVars == <<plugins, tools, resources>>
kernelVars == <<securityConfig, activeOperations>>
protoVars == <<sessionVars, registryVars, kernelVars, calls, last>>
execVars == <<execConfig, runningProcesses, exec>>
storeVars == <<files, snapshots, creating, deleted, lastSnap>>

(***************************************************************************)
(* Tool/resource descriptors of the system plugin (system-plugin.js).      *)
(* properties is the sequence of [key, schema] pairs in declaration order. *)
(***************************************************************************)
SystemExecSchema ==
  [required |-> <<"command">>,
   properties |-> << [key |-> "command", prop |-> [type |-> "string"]],
                     [key |-> "args", prop |-> [type |-> "array"]],
                     [key |-> "requireRoot", prop |-> [type |-> "boolean"]],
                     [key |-> "timeout", prop |-> [type |-> "number"]] >>]

SystemServicesSchema ==
  [required |-> <<"action">>,
   properties |-> << [key |-> "action",
                      prop |-> [type |-> "string",
                                enum |-> <<"list", "status", "start", "stop",
                                           "restart", "enable", "disable">>]],
                     [key |-> "service", prop |-> [type |-> "string"]] >>]

SystemTools ==
  [n \in {"system_exec", "system_services"} |->
     [plugin |-> "system",
      schema |-> IF n = "system_exec" THEN SystemExecSchema ELSE SystemServicesSchema]]

SystemResources == [u \in {"system://info"} |-> [plugin |-> "system"]]

\* this.plugins after createServer: plugin name -> plugin object
SystemPlugins == [n \in {"system"} |-> "system"]

(***************************************************************************)
(* BasePlugin.validateArgs (base-plugin.js).  The value is the message of  *)
(* the first error thrown, or NoError.                                     *)
(***************************************************************************)
NoError == ""

Min(S) == CHOOSE x \in S : \A y \in S : x <= y

RECURSIVE Join(_)
\* Array.prototype.join(', ')
Join(seq) ==
  IF Len(seq) = 0 THEN ""
  ELSE IF Len(seq) = 1 THEN seq[1]
  ELSE seq[1] \o ", " \o Join(Tail(seq))

\* Array.prototype.includes on an array of string literals
EnumIncludes(enum, value) ==
  value.t = "string" /\ \E i \in 1..Len(enum) : enum[i] = value.s

\* new RegExp('^/dev/[a-z]+$').test(s), the one pattern a registered schema may carry
RegExpTest(pattern, s) ==
  LET letters == {"a","b","c","d","e","f","g","h","i","j","k","l","m",
                  "n","o","p","q","r","s","t","u","v","w","x","y","z"}
  IN /\ Len(s) > 5
     /\ SubSeq(s, 1, 5) = "/dev/"
     /\ \A i \in 6..Len(s) : SubSeq(s, i, i) \in letters

RequiredError(args, required) ==
  LET missing == {i \in 1..Len(required) : Get(args, required[i]) = Undefined}
  IN IF missing = {} THEN NoError
     ELSE "Required argument missing: " \o required[Min(missing)]

PropertyError(key, prop, value) ==
  IF value = Undefined THEN NoError
  ELSE IF "type" \in DOMAIN prop /\ TypeOf(value) # prop.type
    THEN "Invalid type for argument " \o key \o ": expected " \o prop.type
         \o ", got " \o TypeOf(value)
  ELSE IF "enum" \in DOMAIN prop /\ ~EnumIncludes(prop.enum, value)
    THEN "Invalid value for argument " \o key \o ": must be one of " \o Join(prop.enum)
  ELSE IF "pattern" \in DOMAIN prop /\ TypeOf(value) = "string"
          /\ ~RegExpTest(prop.pattern, value.s)
    THEN "Invalid format for argument " \o key
  ELSE NoError

validateArgs(args, schema) ==
  LET req == RequiredError(args, schema.required)
      bad == {i \in 1..Len(schema.properties) :
                PropertyError(schema.properties[i].key, schema.properties[i].prop,
                              Get(args, schema.properties[i].key)) # NoError}
  IN IF req # NoError THEN req
     ELSE IF bad = {} THEN NoError
     ELSE PropertyError(schema.properties[Min(bad)].key, schema.properties[Min(bad)].prop,
                        Get(args, schema.properties[Min(bad)].key))

\* the `type` keywords a schema may declare
SchemaTypes == {"string", "integer", "number", "boolean", "object", "array"}

\* the JSON number 1.5
NonInteger == [t |-> "number", n |-> 3, over |-> 2]

\* JSON values a client may pass for an argument
ArgumentValues ==
  {Str(""), Str("ls"), Num(0), Num(42), Num(-1), NonInteger, Bool(TRUE), Bool(FALSE), Null,
   EmptyObj, Obj([device |-> Str("/dev/sda")]), Arr(<<>>), Arr(<<Str("-l")>>)}

\* a schema with the one property `key`, required or not
OneProperty(key, type, required) ==
  [required |-> IF required THEN <<key>> ELSE <<>>,
   properties |-> << [key |-> key, prop |-> [type |-> type]] >>]

\* a handler calls this.validateArgs(args, schema) with args = {[key]: value}
Validate(key, type, required, value) ==
  /\ LET schema == OneProperty(key, type, required)
         args == Obj([k \in {key} |-> value])
     IN last' = [kind |-> "validated", type |-> type, required |-> required, value |-> value,
                 error |-> validateArgs(args, schema)]
  /\ UNCHANGED <<sessionVars, registryVars, kernelVars, calls, execVars, lastReg, storeVars,
                 server>>

\* capture_screenshot's `quality`: minimum 1, maximum 100
QualityMinimum == 1
QualityMaximum == 100

\* numbers a client may pass for a property that declares a range
RangedValues == {Num(-1), Num(0), Num(1), Num(42), Num(100), Num(101)}

\* a schema with the one optional property `key` that declares a range
RangedProperty(key, type, minimum, maximum) ==
  [required |-> <<>>,
   properties |-> << [key |-> key,
                      prop |-> [type |-> type, minimum |-> minimum, maximum |-> maximum]] >>]

\* a handler calls this.validateArgs(args, schema) with args = {[key]: value} and a schema
\* whose property declares minimum and maximum
ValidateRanged(key, type, value) ==
  /\ LET schema == RangedProperty(key, type, QualityMinimum, QualityMaximum)
         args == Obj([k \in {key} |-> value])
     IN last' = [kind |-> "ranged", type |-> type, required |-> FALSE, value |-> value,
                 error |-> validateArgs(args, schema)]
  /\ UNCHANGED <<sessionVars, registryVars, kernelVars, calls, execVars, lastReg, storeVars,
                 server>>

NextValidator ==
  \/ \E key \in {"args"}, type \in SchemaTypes, required \in BOOLEAN,
        value \in ArgumentValues :
       Validate(key, type, required, value)
  \/ \E type \in {"integer", "number"}, value \in RangedValues :
       ValidateRanged("quality", type, value)

(***************************************************************************)
(* Request envelopes the transport may hand to handleRequest.              *)
(***************************************************************************)
Envelope(jsonrpc, method, params, id) ==
  Obj([jsonrpc |-> jsonrpc, method |-> method, params |-> params, id |-> id])

Params(ci, name, arguments, uri) ==
  Obj([clientInfo |-> ci, name |-> name, arguments |-> arguments, uri |-> uri])

Args(command, timeout, action) ==
  Obj([command |-> command, timeout |-> timeout, action |-> action])

\* absent, the integer 0, a non-zero integer, a string
IdValues == {Undefined, Num(0), Num(7), Str("a")}

ClientInfos == {Str("client-a"), Str("client-b")}

ToolArguments ==
  { Undefined,
    Args(Undefined, Undefined, Undefined),        \* {}
    Args(Str("ls"), Undefined, Undefined),        \* {command: "ls"}
    Args(Num(42), Undefined, Undefined),          \* {command: 42}
    Args(Str("ls"), Str("soon"), Undefined),      \* {command: "ls", timeout: "soon"}
    Args(Undefined, Undefined, Str("list")),      \* {action: "list"}
    Args(Undefined, Undefined, Str("bogus")) }    \* {action: "bogus"}

ToolCallParams ==
  {Undefined, Params(Undefined, Undefined, Undefined, Undefined)}
  \cup {Params(Undefined, Str(n), a, Undefined) :
          n \in {"system_exec", "system_services"}, a \in ToolArguments}
  \cup {Params(Undefined, Str("no_such_tool"), Undefined, Undefined)}

ResourceReadParams ==
  {Undefined}
  \cup {Params(Undefined, Undefined, Undefined, u) :
          u \in {Undefined, Str("system://info"), Str("no://such")}}

InitializeParams ==
  {Undefined} \cup {Params(ci, Undefined, Undefined, Undefined) : ci \in ClientInfos}

MethodNames ==
  {"initialize", "initialized", "tools/list", "tools/call", "resources/list",
   "resources/read", "completion/complete"}

ParamsFor(m) ==
  CASE m = "initialize" -> InitializeParams
    [] m = "tools/call" -> ToolCallParams
    [] m = "resources/read" -> ResourceReadParams
    [] OTHER -> {Undefined}

WellFormedEnvelopes ==
  UNION { {Envelope(Str("2.0"), Str(m), p, i) : p \in ParamsFor(m), i \in IdValues} :
          m \in MethodNames \cup {"foo/bar"} }

MalformedEnvelopes ==
  {Undefined, Null, Num(0), Str("ping"), Arr(<<>>)}
  \cup {Envelope(j, Str(m), Undefined, i) :
          j \in {Str("1.0"), Undefined}, m \in {"initialize", "tools/list"}, i \in IdValues}
  \cup {Envelope(Str("2.0"), m, Undefined, i) : m \in {Undefined, Str("")}, i \in IdValues}

Envelopes == WellFormedEnvelopes \cup MalformedEnvelopes

(***************************************************************************)
(* SecurityManager configuration (security-manager.js, constructor).       *)
(***************************************************************************)
DefaultMaxConcurrentOperations == 10

SecurityConfigs ==
  [maxConcurrentOperations : {Undefined} \cup {Num(n) : n \in 1..MaxConfigured},
   auditAll : {Bool(FALSE), Bool(TRUE)}]

\* this.maxConcurrentOperations = config.maxConcurrentOperations || 10
maxConcurrentOperations ==
  OrElse(securityConfig.maxConcurrentOperations, Num(DefaultMaxConcurrentOperations)).n

\* this.auditAll = config.auditAll || true
auditAll == Truthy(OrElse(securityConfig.auditAll, Bool(TRUE)))

NoOperations == [o \in {} |-> Undefined]

NoLast == [kind |-> "none"]

\* the protocol side at start-up: createServer has registered the system plugin
InitProtocol ==
  /\ initialized = FALSE
  /\ clientInfo = Null
  /\ plugins = SystemPlugins
  /\ tools = SystemTools
  /\ resources = SystemResources
  /\ securityConfig \in SecurityConfigs
  /\ activeOperations = NoOperations
  /\ calls = NoOperations
  /\ last = NoLast
  /\ server = "listening"

(***************************************************************************)
(* What the model records about the last request: the request's id and     *)
(* method, the session flag when it was dispatched, the response envelope  *)
(* and what the audit kernel did for it.                                   *)
(***************************************************************************)
NoKernel ==
  [kernel |-> "none",            \* "refused" or "admitted" by executeWithAudit
   inflightBefore |-> 0,         \* admitted operations in flight when the call arrived
   opId |-> 0,                   \* the operation id issued to it
   callbackInvoked |-> FALSE,    \* the operation callback was invoked
   handlerStarted |-> FALSE,     \* the plugin handler got past validateArgs
   schemaViolated |-> FALSE,     \* the tool is registered and validateArgs rejects the arguments
   exit |-> "none",              \* "resolved", "threw" or "auditThrew"
   targetMissing |-> FALSE,      \* tools/call without a name, resources/read without a uri
   audit |-> <<>>,               \* the audit events written for the operation, in order
   sinkThrew |-> FALSE,          \* a logger.audit call made for the operation threw
   thrown |-> NoError]           \* error.message of the error the operation callback threw

Responded(id, method, wellFormed, initBefore, resp, obs) ==
  [kind |-> "response", id |-> id, method |-> method, wellFormed |-> wellFormed,
   initBefore |-> initBefore, resp |-> resp, obs |-> obs]

Pending(id, method, obs) ==
  [kind |-> "pending", id |-> id, method |-> method, wellFormed |-> TRUE,
   initBefore |-> TRUE, obs |-> obs]

(***************************************************************************)
(* MCPProtocol.handleRequest (mcp-protocol.js).                            *)
(***************************************************************************)
\* !request || request.jsonrpc !== '2.0' || !request.method
InvalidRequest(request) ==
  \/ ~Truthy(request)
  \/ Get(request, "jsonrpc") # Str("2.0")
  \/ ~Truthy(Get(request, "method"))

\* request?.id || null
InvalidRequestId(request) == OrElse(Get(request, "id"), Null)

\* handlers and timers go on running after process.exit
Serving_Always == TRUE

\* the process has not left through process.exit: its handlers and timers still run
Serving == server # "exited"

\* a request handed to handleRequest by a running server reaches case label `m` of the switch
Dispatches(request, m) ==
  Serving /\ ~InvalidRequest(request) /\ Get(request, "method") = Str(m)

Reply(request, resp, obs) ==
  last' = Responded(Get(request, "id"), Get(request, "method"), ~InvalidRequest(request),
                    initialized, resp, obs)

HandleInvalidRequest(request) ==
  /\ Serving
  /\ InvalidRequest(request)
  /\ Reply(request, createError(-32600, "Invalid Request", InvalidRequestId(request)), NoKernel)
  /\ UNCHANGED <<sessionVars, registryVars, kernelVars, calls, execVars, lastReg, storeVars, server>>

HandleUnknownMethod(request) ==
  /\ Serving
  /\ ~InvalidRequest(request)
  /\ \A m \in MethodNames : Get(request, "method") # Str(m)
  /\ Reply(request, createError(-32601, "Method not found", Get(request, "id")), NoKernel)
  /\ UNCHANGED <<sessionVars, registryVars, kernelVars, calls, execVars, lastReg, storeVars, server>>

InitializeResult ==
  Obj([protocolVersion |-> Str("2024-11-05"),
       capabilities |-> Str("tools.listChanged resources.subscribe resources.listChanged prompts.listChanged"),
       serverInfo |-> Str("mcp-arch-linux 1.0.0")])

\* the handshake is complete after `initialize` alone
handleInitialize_Completes(request) ==
  /\ Dispatches(request, "initialize")
  /\ initialized' = TRUE
  /\ clientInfo' = Get(Get(request, "params"), "clientInfo")
  /\ Reply(request, createResponse(InitializeResult, Get(request, "id")), NoKernel)
  /\ UNCHANGED <<registryVars, kernelVars, calls, execVars, lastReg, storeVars, server>>

handleInitialize(request) ==
  /\ Dispatches(request, "initialize")
  /\ LET params == Get(request, "params")
         id == Get(request, "id")
     IN IF Nullish(params)
        THEN \* params.clientInfo throws a TypeError, caught by the handler
             /\ Reply(request, createError(-32603, "Initialization failed", id), NoKernel)
             /\ UNCHANGED clientInfo
        ELSE /\ clientInfo' = Get(params, "clientInfo")
             /\ Reply(request, createResponse(InitializeResult, id), NoKernel)
  /\ UNCHANGED <<initialized, registryVars, kernelVars, calls, execVars, lastReg, storeVars, server>>

handleInitialized(request) ==
  /\ Dispatches(request, "initialized")
  /\ initialized' = TRUE
  /\ Reply(request, createResponse(EmptyObj, Get(request, "id")), NoKernel)
  /\ UNCHANGED <<clientInfo, registryVars, kernelVars, calls, execVars, lastReg, storeVars, server>>

\* PluginManager.getAllTools: the descriptors (by name) in the tools map
getAllTools == Obj([tools |-> Str("descriptors"), names |-> DOMAIN tools])

getAllResources == Obj([resources |-> Str("descriptors"), uris |-> DOMAIN resources])

NotInitialized(id) == createError(-32002, "Server not initialized", id)

\* tools/list served without looking at the session flag
handleToolsList_NoGate(request) ==
  /\ Dispatches(request, "tools/list")
  /\ Reply(request, createResponse(getAllTools, Get(request, "id")), NoKernel)
  /\ UNCHANGED <<sessionVars, registryVars, kernelVars, calls, execVars, lastReg, storeVars, server>>

handleToolsList(request) ==
  /\ Dispatches(request, "tools/list")
  /\ IF ~initialized
     THEN Reply(request, NotInitialized(Get(request, "id")), NoKernel)
     ELSE Reply(request, createResponse(getAllTools, Get(request, "id")), NoKernel)
  /\ UNCHANGED <<sessionVars, registryVars, kernelVars, calls, execVars, lastReg, storeVars, server>>

\* resources/list served without looking at the session flag
handleResourcesList_NoGate(request) ==
  /\ Dispatches(request, "resources/list")
  /\ Reply(request, createResponse(getAllResources, Get(request, "id")), NoKernel)
  /\ UNCHANGED <<sessionVars, registryVars, kernelVars, calls, execVars, lastReg, storeVars, server>>

handleResourcesList(request) ==
  /\ Dispatches(request, "resources/list")
  /\ IF ~initialized
     THEN Reply(request, NotInitialized(Get(request, "id")), NoKernel)
     ELSE Reply(request, createResponse(getAllResources, Get(request, "id")), NoKernel)
  /\ UNCHANGED <<sessionVars, registryVars, kernelVars, calls, execVars, lastReg, storeVars, server>>

CompletionResult == Obj([completion |-> Str("values=[] total=0 hasMore=false")])

handleCompletion(request) ==
  /\ Dispatches(request, "completion/complete")
  /\ Reply(request, createResponse(CompletionResult, Get(request, "id")), NoKernel)
  /\ UNCHANGED <<sessionVars, registryVars, kernelVars, calls, execVars, lastReg, storeVars, server>>

(***************************************************************************)
(* PluginManager.executeTool / readResource (plugin-manager.js) up to the  *)
(* first real suspension: the registry lookup, the plugin's switch and the *)
(* handler's validateArgs all run in the caller's turn.                    *)
(***************************************************************************)
Text(v) == IF v.t = "string" THEN v.s ELSE v.t

ToolRegistered(name) == name.t = "string" /\ name.s \in DOMAIN tools

SchemaViolated(name, args) ==
  ToolRegistered(name) /\ validateArgs(args, tools[name.s].schema) # NoError

executeTool(name, args) ==
  IF ~ToolRegistered(name)
  THEN [status |-> "threw", message |-> "Tool not found: " \o Text(name)]
  ELSE IF validateArgs(args, tools[name.s].schema) # NoError
  THEN [status |-> "threw",
        message |-> "Tool execution failed: " \o validateArgs(args, tools[name.s].schema)]
  ELSE [status |-> "running", message |-> NoError]

readResource(uri) ==
  IF ~(uri.t = "string" /\ uri.s \in DOMAIN resources)
  THEN [status |-> "threw", message |-> "Resource not found: " \o Text(uri)]
  ELSE [status |-> "running", message |-> NoError]

(***************************************************************************)
(* SecurityManager.executeWithAudit (security-manager.js).                 *)
(***************************************************************************)
AuditEvents == {"operation_start", "operation_success", "operation_failure"}

AuditError == "audit sink failed"

\* the limit tested one too high
AtCapacity_OffByOne(size, max) == size > max

\* this.activeOperations.size >= this.maxConcurrentOperations
AtCapacity(size, max) == size >= max

Without(f, k) == [o \in DOMAIN f \ {k} |-> f[o]]

\* this.activeOperations.set(operationId, {...})
Register(ops, opId, record) ==
  [o \in DOMAIN ops \cup {opId} |-> IF o = opId THEN record ELSE ops[o]]

\* the record is left in the map
Release_Forgotten(ops, opId) == ops

\* finally { this.activeOperations.delete(operationId) }
Release(ops, opId) == Without(ops, opId)

\* uuidv4(): an id no live operation has (the least one, to keep the model small)
uuidv4 ==
  Min({n \in 1..(Cardinality(DOMAIN activeOperations \cup DOMAIN calls) + 1) :
         n \notin DOMAIN activeOperations \cup DOMAIN calls})

\* the events that reach the audit log out of the logger.audit calls the code
\* makes in order: none is made unless this.auditAll, and a call that throws
\* writes nothing
Written(attempts, auditThrows) ==
  IF auditAll THEN SelectSeq(attempts, LAMBDA e : e \notin auditThrows) ELSE <<>>

\* one of the logger.audit calls the code makes throws
SinkThrew(attempts, auditThrows) ==
  auditAll /\ \E i \in 1..Len(attempts) : attempts[i] \in auditThrows

\* both terminal events are logged for an operation that resolved
TerminalAudit_Both(threw, successAuditThrew) ==
  IF threw THEN <<"operation_failure">> ELSE <<"operation_success", "operation_failure">>

\* the logger.audit calls made once the operation callback has settled: operation_success
\* after the await, and operation_failure in the catch block, which is also entered when
\* the operation_success call throws
TerminalAudit(threw, successAuditThrew) ==
  IF threw THEN <<"operation_failure">>
  ELSE IF successAuditThrew THEN <<"operation_success", "operation_failure">>
  ELSE <<"operation_success">>

\* the catch block throws an error of its own
Rethrown_Generic(message, auditThrows) == "Operation failed"

\* the catch block: the operation_failure audit call may itself throw
Rethrown(message, auditThrows) ==
  IF auditAll /\ "operation_failure" \in auditThrows THEN AuditError ELSE message

\* executeWithAudit called by handleToolCall / handleResourceRead for `request`;
\* `start` is what the operation callback does in its first turn.
executeWithAudit(request, type, context, start, violated, auditThrows) ==
  LET id == Get(request, "id")
      obs0 == [NoKernel EXCEPT !.inflightBefore = Cardinality(DOMAIN calls),
                               !.schemaViolated = violated]
  IN
  IF AtCapacity(Cardinality(DOMAIN activeOperations), maxConcurrentOperations)
  THEN /\ Reply(request, createError(-32603, "Maximum concurrent operations exceeded", id),
                [obs0 EXCEPT !.kernel = "refused"])
       /\ UNCHANGED <<activeOperations, calls>>
  ELSE
    /\ LET opId == uuidv4
           admitted == Register(activeOperations, opId, [type |-> type, context |-> context])
           obs1 == [obs0 EXCEPT !.kernel = "admitted", !.opId = opId]
       IN
       IF auditAll /\ "operation_start" \in auditThrows
       THEN /\ activeOperations' = Release(admitted, opId)
            /\ Reply(request, createError(-32603, Rethrown(AuditError, auditThrows), id),
                     [obs1 EXCEPT !.exit = "auditThrew", !.sinkThrew = TRUE,
                                  !.audit = Written(<<"operation_start", "operation_failure">>,
                                                    auditThrows)])
            /\ UNCHANGED calls
       ELSE IF start.status = "threw"
       THEN /\ activeOperations' = Release(admitted, opId)
            /\ Reply(request, createError(-32603, Rethrown(start.message, auditThrows), id),
                     [obs1 EXCEPT !.callbackInvoked = TRUE, !.exit = "threw",
                                  !.thrown = start.message,
                                  !.sinkThrew = SinkThrew(<<"operation_failure">>, auditThrows),
                                  !.audit = Written(<<"operation_start", "operation_failure">>,
                                                    auditThrows)])
            /\ UNCHANGED calls
       ELSE /\ Cardinality(DOMAIN calls) < MaxInFlight
            /\ activeOperations' = admitted
            /\ calls' = Register(calls, opId,
                               [id |-> id, method |-> Get(request, "method"),
                                audit |-> Written(<<"operation_start">>, auditThrows)])
            /\ last' = Pending(id, Get(request, "method"),
                               [obs1 EXCEPT !.callbackInvoked = TRUE, !.handlerStarted = TRUE,
                                            !.audit = Written(<<"operation_start">>,
                                                              auditThrows)])

TypeErrorMessage == "Cannot destructure property of 'params' as it is undefined."

handleToolCall(request, auditThrows) ==
  /\ Dispatches(request, "tools/call")
  /\ LET params == Get(request, "params")
         id == Get(request, "id")
         name == Get(params, "name")
         toolArgs == Get(params, "arguments")
     IN IF ~initialized
        THEN /\ Reply(request, NotInitialized(id), NoKernel)
             /\ UNCHANGED <<activeOperations, calls>>
        ELSE IF Nullish(params)
        THEN /\ Reply(request, createError(-32603, TypeErrorMessage, id),
                      [NoKernel EXCEPT !.targetMissing = TRUE])
             /\ UNCHANGED <<activeOperations, calls>>
        ELSE IF ~Truthy(name)
        THEN /\ Reply(request, createError(-32602, "Missing tool name", id),
                      [NoKernel EXCEPT !.targetMissing = TRUE])
             /\ UNCHANGED <<activeOperations, calls>>
        ELSE executeWithAudit(request, "tool_call",
                              Obj([tool |-> name, arguments |-> toolArgs]),
                              executeTool(name, OrElse(toolArgs, EmptyObj)),
                              SchemaViolated(name, OrElse(toolArgs, EmptyObj)),
                              auditThrows)
  /\ UNCHANGED <<sessionVars, registryVars, securityConfig, execVars, lastReg, storeVars, server>>

handleResourceRead(request, auditThrows) ==
  /\ Dispatches(request, "resources/read")
  /\ LET params == Get(request, "params")
         id == Get(request, "id")
         uri == Get(params, "uri")
     IN IF ~initialized
        THEN /\ Reply(request, NotInitialized(id), NoKernel)
             /\ UNCHANGED <<activeOperations, calls>>
        ELSE IF Nullish(params)
        THEN /\ Reply(request, createError(-32603, TypeErrorMessage, id),
                      [NoKernel EXCEPT !.targetMissing = TRUE])
             /\ UNCHANGED <<activeOperations, calls>>
        ELSE IF ~Truthy(uri)
        THEN /\ Reply(request, createError(-32602, "Missing resource URI", id),
                      [NoKernel EXCEPT !.targetMissing = TRUE])
             /\ UNCHANGED <<activeOperations, calls>>
        ELSE executeWithAudit(request, "resource_read", Obj([uri |-> uri]),
                              readResource(uri), FALSE, auditThrows)
  /\ UNCHANGED <<sessionVars, registryVars, securityConfig, execVars, lastReg, storeVars, server>>

(***************************************************************************)
(* The plugin handler of an admitted call settles: the rest of             *)
(* PluginManager.executeTool/readResource, of executeWithAudit and of      *)
(* handleToolCall/handleResourceRead.                                      *)
(***************************************************************************)
HandlerOutcomes ==
  { [status |-> "resolved", result |-> Obj([content |-> Str("text"), isError |-> Bool(FALSE)]),
     message |-> NoError],
    [status |-> "threw", result |-> Undefined, message |-> "Command not allowed: rm"] }

OperationSettles(opId, outcome, auditThrows) ==
  /\ Serving
  /\ opId \in DOMAIN calls
  /\ LET call == calls[opId]
         threw == outcome.status = "threw"
         wrapped == (IF call.method = Str("tools/call") THEN "Tool execution failed: "
                     ELSE "Resource read failed: ") \o outcome.message
         successAuditThrew == ~threw /\ auditAll /\ "operation_success" \in auditThrows
         resp == IF threw
                   THEN createError(-32603, Rethrown(wrapped, auditThrows), call.id)
                 ELSE IF successAuditThrew
                   THEN createError(-32603, Rethrown(AuditError, auditThrows), call.id)
                 ELSE createResponse(outcome.result, call.id)
         exit == IF threw THEN "threw" ELSE IF successAuditThrew THEN "auditThrew"
                 ELSE "resolved"
         attempts == TerminalAudit(threw, successAuditThrew)
         terminal == Written(attempts, auditThrows)
     IN /\ activeOperations' = Release(activeOperations, opId)
        /\ calls' = Without(calls, opId)
        /\ last' = Responded(call.id, call.method, TRUE, TRUE, resp,
                             [NoKernel EXCEPT !.kernel = "admitted", !.opId = opId,
                                              !.callbackInvoked = TRUE,
                                              !.handlerStarted = TRUE, !.exit = exit,
                                              !.thrown = IF threw THEN wrapped ELSE NoError,
                                              !.sinkThrew = SinkThrew(attempts, auditThrows),
                                              !.audit = call.audit \o terminal])
  /\ UNCHANGED <<sessionVars, registryVars, securityConfig, execVars, lastReg, storeVars, server>>

(***************************************************************************)
(* CommandExecutor (command-executor.js).  Timers count down in seconds.   *)
(***************************************************************************)
\* execute() calls in one behaviour
MaxCalls == 1
\* timeouts passed to execute(), in seconds, range over 1..MaxTimeout
MaxTimeout == 2
\* setTimeout(..., 5000): seconds between SIGTERM and the SIGKILL check
GracePeriod == 5

Calls == 1..MaxCalls

Commands == {"ls", "rm", "cat|sh", "~/x"}

\* what a child program may do on SIGTERM: die of it, or catch it and exit(0); a
\* program that ignores it does neither
TermReactions == {"die", "exit0"}

ExecConfigs == [allowedCommands : {<<>>, <<"ls">>}, uid : {0, 1000}]

NoCall ==
  [pc |-> "idle",          \* "idle", "spawned" (awaiting close), "settled"
   command |-> "",          \* the command validated and handed to spawn()
   args |-> <<>>,           \* the arguments handed to spawn()
   sudoOf |-> "",           \* the command given to executeWithSudo, if the call came from it
   timer |-> "none",        \* timeoutHandle: "none", "armed", "cleared", "fired"
   timerLeft |-> 0,         \* seconds until timeoutHandle fires
   grace |-> "none",        \* the inner timer: "none", "armed", "fired"
   graceLeft |-> 0,         \* seconds until the inner timer fires
   late |-> FALSE,          \* time has passed since the inner timer fired
   child |-> "none",        \* "none", "running", "exited" (not yet closed), "closed"
   killed |-> FALSE,        \* child.killed
   sent |-> {},             \* signals delivered to the child
   timedOut |-> FALSE,      \* the timeout's SIGTERM was delivered to the child
   reacted |-> FALSE,       \* the child ended because of a signal it was sent
   exitCode |-> Null,       \* the (code, signal) of the close event
   exitSignal |-> Null,
   outcome |-> "pending",   \* "pending", "resolved", "rejected"
   success |-> FALSE,       \* result.success of a resolved call
   message |-> NoError]     \* error.message of a rejected call

InitExecutor ==
  /\ execConfig \in ExecConfigs
  /\ runningProcesses = [p \in {} |-> 0]
  /\ exec = [c \in Calls |-> NoCall]

\* the executor is not used
ExecutorIdle ==
  /\ execConfig = [allowedCommands |-> <<>>, uid |-> 0]
  /\ runningProcesses = [p \in {} |-> 0]
  /\ exec = [c \in Calls |-> NoCall]

\* String.prototype.includes
Includes(str, sub) ==
  \E i \in 1..(Len(str) - Len(sub) + 1) : SubSeq(str, i, i + Len(sub) - 1) = sub

\* Array.prototype.includes
ArrayIncludes(arr, x) == \E i \in 1..Len(arr) : arr[i] = x

\* only the injection and traversal checks are made
validateCommand_NoAllowlist(command) ==
  IF Includes(command, ";") \/ Includes(command, "&&") \/ Includes(command, "||")
     \/ Includes(command, "|")
    THEN "Command injection detected"
  ELSE IF Includes(command, "..") \/ Includes(command, "~")
    THEN "Path traversal detected"
  ELSE NoError

\* CommandExecutor.validateCommand: the message of the error thrown, or NoError
validateCommand(command) ==
  IF Len(execConfig.allowedCommands) > 0
     /\ ~ArrayIncludes(execConfig.allowedCommands, command)
    THEN "Command not allowed: " \o command
  ELSE IF Includes(command, ";") \/ Includes(command, "&&") \/ Includes(command, "||")
          \/ Includes(command, "|")
    THEN "Command injection detected"
  ELSE IF Includes(command, "..") \/ Includes(command, "~")
    THEN "Path traversal detected"
  ELSE NoError

\* this.runningProcesses.set(processId, child)
TableSet(table, processId) ==
  [p \in DOMAIN table \cup {processId} |-> IF p = processId THEN processId ELSE table[p]]

\* the finally block leaves the entry in the table
TableDelete_Kept(table, processId) == table

\* this.runningProcesses.delete(processId)
TableDelete(table, processId) == [p \in DOMAIN table \ {processId} |-> table[p]]

\* child.kill(signal): the signal is delivered, and child.killed set, only while the
\* process still exists; afterwards kill() returns false and changes nothing
Kill(call, signal) ==
  IF call.child = "running"
  THEN [call EXCEPT !.killed = TRUE, !.sent = @ \cup {signal}]
  ELSE call

Rejected(call, command, message) ==
  [call EXCEPT !.pc = "settled", !.command = command, !.outcome = "rejected",
               !.message = message]

\* CommandExecutor.execute(command, args, {timeout, requireRoot}) as call `c`, up to the
\* await of spawnProcess; when spawn() fails the child's 'error' event rejects the promise
\* in the same turn of the event loop.  `sudoOf` is the command executeWithSudo was given.
Execute(c, command, args, timeout, requireRoot, spawnFails, sudoOf) ==
  /\ Serving
  /\ exec[c].pc = "idle"
  /\ \A d \in 1..(c - 1) : exec[d].pc # "idle"
  /\ LET call == [exec[c] EXCEPT !.args = args, !.sudoOf = sudoOf]
     IN
     IF validateCommand(command) # NoError
     THEN /\ exec' = [exec EXCEPT ![c] = Rejected(call, command, validateCommand(command))]
          /\ UNCHANGED runningProcesses
     ELSE IF requireRoot /\ execConfig.uid # 0
     THEN /\ exec' = [exec EXCEPT ![c] =
                        Rejected(call, command, "Root privileges required for this operation")]
          /\ UNCHANGED runningProcesses
     ELSE IF spawnFails
     THEN /\ exec' = [exec EXCEPT ![c] =
                        [Rejected(call, command, "Failed to spawn process: spawn ENOENT")
                           EXCEPT !.timer = "cleared"]]
          /\ runningProcesses' = TableDelete(TableSet(runningProcesses, c), c)
     ELSE /\ exec' = [exec EXCEPT ![c] =
                        [call EXCEPT !.pc = "spawned", !.command = command,
                                     !.child = "running", !.timer = "armed",
                                     !.timerLeft = timeout]]
          /\ runningProcesses' = TableSet(runningProcesses, c)
  /\ UNCHANGED <<execConfig, protoVars, lastReg, storeVars, server>>

\* CommandExecutor.execute called by a plugin (the arguments play no part in the checks)
execute(c, command, timeout, requireRoot, spawnFails) ==
  Execute(c, command, <<>>, timeout, requireRoot, spawnFails, "")

\* CommandExecutor.executeWithSudo(command, [], {timeout})
executeWithSudo(c, command, timeout, spawnFails) ==
  IF execConfig.uid = 0
  THEN Execute(c, command, <<>>, timeout, FALSE, spawnFails, command)
  ELSE Execute(c, "sudo", <<"-n", command>>, timeout, FALSE, spawnFails, command)

\* the child process ends by itself with an exit code
ChildExits(c, code) ==
  /\ exec[c].child = "running"
  /\ exec' = [exec EXCEPT ![c] = [@ EXCEPT !.child = "exited", !.exitCode = Num(code)]]
  /\ UNCHANGED <<execConfig, runningProcesses, protoVars, lastReg, storeVars, server>>

\* the child process acts on a signal it was sent: SIGKILL always ends it, SIGTERM does
\* what the program chose
ChildReacts(c, reaction) ==
  /\ exec[c].child = "running"
  /\ exec[c].sent # {}
  /\ exec' = [exec EXCEPT ![c] =
       IF "SIGKILL" \in exec[c].sent
       THEN [@ EXCEPT !.child = "exited", !.reacted = TRUE, !.exitSignal = Str("SIGKILL")]
       ELSE IF reaction = "die"
       THEN [@ EXCEPT !.child = "exited", !.reacted = TRUE, !.exitSignal = Str("SIGTERM")]
       ELSE [@ EXCEPT !.child = "exited", !.reacted = TRUE, !.exitCode = Num(0)]]
  /\ UNCHANGED <<execConfig, runningProcesses, protoVars, lastReg, storeVars, server>>

\* if (!child.killed)
ShouldForceKill(call) == ~call.killed

\* child.on('close', (code, signal) => ...), then the finally block of execute
Close(c) ==
  /\ Serving
  /\ exec[c].child = "exited"
  /\ exec[c].pc = "spawned"
  /\ LET call == exec[c]
         cleared == IF call.timer = "armed" THEN "cleared" ELSE call.timer
     IN exec' = [exec EXCEPT ![c] =
          IF call.exitSignal # Null
          THEN [@ EXCEPT !.child = "closed", !.timer = cleared, !.timerLeft = 0,
                         !.pc = "settled", !.outcome = "rejected",
                         !.message = "Process killed with signal " \o call.exitSignal.s]
          ELSE [@ EXCEPT !.child = "closed", !.timer = cleared, !.timerLeft = 0,
                         !.pc = "settled", !.outcome = "resolved",
                         !.success = (call.exitCode = Num(0))]]
  /\ runningProcesses' = TableDelete(runningProcesses, c)
  /\ UNCHANGED <<execConfig, protoVars, lastReg, storeVars, server>>

\* timeoutHandle fires at the deadline
TimeoutFires(c) ==
  /\ Serving
  /\ exec[c].timer = "armed"
  /\ exec[c].timerLeft = 0
  /\ exec' = [exec EXCEPT ![c] =
       [Kill(@, "SIGTERM") EXCEPT !.timer = "fired", !.grace = "armed",
                                  !.graceLeft = GracePeriod,
                                  !.timedOut = (exec[c].child = "running")]]
  /\ UNCHANGED <<execConfig, runningProcesses, protoVars, lastReg, storeVars, server>>

\* the inner timer fires GracePeriod after the deadline
GraceFires(c) ==
  /\ Serving
  /\ exec[c].grace = "armed"
  /\ exec[c].graceLeft = 0
  /\ exec' = [exec EXCEPT ![c] =
       IF ShouldForceKill(@)
       THEN [Kill(@, "SIGKILL") EXCEPT !.grace = "fired"]
       ELSE [@ EXCEPT !.grace = "fired"]]
  /\ UNCHANGED <<execConfig, runningProcesses, protoVars, lastReg, storeVars, server>>

\* the value CommandExecutor.killProcess(processId) resolves to
killProcessReturns(processId) == processId \in DOMAIN runningProcesses

\* CommandExecutor.killProcess(processId): the child found under the id is sent SIGTERM;
\* when the table has no such id nothing is done
killProcess(processId) ==
  /\ Serving
  /\ exec' = IF processId \in DOMAIN runningProcesses
             THEN [exec EXCEPT ![processId] = Kill(@, "SIGTERM")]
             ELSE exec
  /\ UNCHANGED <<execConfig, runningProcesses, protoVars, lastReg, storeVars, server>>

\* CommandExecutor.killAllProcesses: killProcess on every id in the table; each of those
\* promises is already resolved, so Promise.all resolves in the same turn (on an empty
\* table the call changes nothing)
killAllProcesses ==
  /\ Serving
  /\ runningProcesses # [p \in {} |-> 0]
  /\ exec' = [c \in Calls |->
       IF c \in DOMAIN runningProcesses THEN Kill(exec[c], "SIGTERM") ELSE exec[c]]
  /\ UNCHANGED <<execConfig, runningProcesses, protoVars, lastReg, storeVars, server>>

\* server.js, the SIGTERM / SIGINT handler up to `await server.close()`
shutdown(signal) ==
  /\ server = "listening"
  /\ server' = "closing"
  /\ UNCHANGED <<protoVars, execVars, lastReg, storeVars>>

\* server.close() settles: on success security.cleanup() clears the operation map and
\* process.exit(0) follows, on failure process.exit(1); nothing else is called
ShutdownCompletes(closeFails) ==
  /\ server = "closing"
  /\ server' = "exited"
  /\ activeOperations' = IF closeFails THEN activeOperations ELSE NoOperations
  /\ UNCHANGED <<sessionVars, registryVars, securityConfig, calls, last, execVars, lastReg,
                 storeVars>>

\* a second passes; a timer that is due fires before the clock moves on
Tick ==
  /\ Serving
  /\ \A c \in Calls :
       /\ ~(exec[c].timer = "armed" /\ exec[c].timerLeft = 0)
       /\ ~(exec[c].grace = "armed" /\ exec[c].graceLeft = 0)
  /\ exec' = [c \in Calls |->
       [exec[c] EXCEPT
          !.timerLeft = IF exec[c].timer = "armed" THEN @ - 1 ELSE @,
          !.graceLeft = IF exec[c].grace = "armed" THEN @ - 1 ELSE @,
          !.late = @ \/ exec[c].grace = "fired"]]
  /\ UNCHANGED <<execConfig, runningProcesses, protoVars, lastReg, storeVars, server>>

NextExec ==
  \/ \E c \in Calls, command \in Commands, timeout \in 1..MaxTimeout,
        requireRoot \in BOOLEAN, spawnFails \in BOOLEAN :
       execute(c, command, timeout, requireRoot, spawnFails)
  \/ \E c \in Calls, code \in {0, 1} : ChildExits(c, code)
  \/ \E c \in Calls, reaction \in TermReactions : ChildReacts(c, reaction)
  \/ \E c \in Calls : Close(c)
  \/ \E c \in Calls : TimeoutFires(c)
  \/ \E c \in Calls : GraceFires(c)
  \/ \E c \in Calls : killProcess(c)
  \/ Tick

\* the executor in a server that plugins ask for elevated commands and that is shut down
NextHost ==
  \/ NextExec
  \/ \E c \in Calls, command \in {"ls", "rm"}, timeout \in {MaxTimeout},
        spawnFails \in BOOLEAN :
       executeWithSudo(c, command, timeout, spawnFails)
  \/ killAllProcesses
  \/ \E signal \in {"SIGTERM", "SIGINT"} : shutdown(signal)
  \/ \E closeFails \in BOOLEAN : ShutdownCompletes(closeFails)

(***************************************************************************)
(* PluginManager.register / unregister (plugin-manager.js).  A plugin is   *)
(* an object with a name and the tool and resource descriptors its         *)
(* constructor built; BasePlugin.initialize, getTools, getResources and    *)
(* cleanup do no I/O, so a call runs in one turn of the event loop.        *)
(***************************************************************************)
\* the plugin objects handed to register: name, tool names and resource uris in
\* declaration order
Plugin(o) ==
  CASE o = "A" -> [name |-> "a", tools |-> <<"t1">>, resources |-> <<"r1">>]
    [] o = "B" -> [name |-> "b", tools |-> <<"t2", "t1">>, resources |-> <<"r2">>]
    [] o = "C" -> [name |-> "c", tools |-> <<"t3">>, resources |-> <<"r3", "r1">>]
    [] o = "A2" -> [name |-> "a", tools |-> <<"t4">>, resources |-> <<>>]
    [] o = "Anon" -> [name |-> "", tools |-> <<"t5">>, resources |-> <<>>]
    [] OTHER -> [name |-> "system", tools |-> <<"system_exec", "system_services">>,
                 resources |-> <<"system://info">>]

PluginObjects == {"A", "B", "C", "A2", "Anon"}

\* names given to unregister
PluginNames == {"a", "b", "c", "system", "zz"}

NoSchema == [required |-> <<>>, properties |-> <<>>]

Registry == [plugins |-> plugins, tools |-> tools, resources |-> resources]

NoRegistry == [plugins |-> "none"]

NoRegistration ==
  [op |-> "none", name |-> "", object |-> "", ok |-> TRUE, collision |-> FALSE,
   message |-> NoError, before |-> NoRegistry, prior |-> NoRegistry]

RegistryIdle == lastReg = NoRegistration

\* Map.set
MapSet(map, key, value) ==
  [k \in DOMAIN map \cup {key} |-> IF k = key THEN value ELSE map[k]]

\* the plugins entry stays in the map
MapDelete_Kept(map, key) == map

\* Map.delete
MapDelete(map, key) == [k \in DOMAIN map \ {key} |-> map[k]]

RECURSIVE SetTools(_, _, _)
\* the loop over plugin.getTools(): every descriptor before the first name that is
\* already in the map has been set when the loop throws
SetTools(map, o, names) ==
  IF Len(names) = 0 THEN [map |-> map, error |-> NoError]
  ELSE IF Head(names) \in DOMAIN map
    THEN [map |-> map,
          error |-> "Tool " \o Head(names) \o " is already registered by another plugin"]
  ELSE SetTools(MapSet(map, Head(names), [plugin |-> o, schema |-> NoSchema]), o, Tail(names))

RECURSIVE SetResources(_, _, _)
\* the loop over plugin.getResources()
SetResources(map, o, uris) ==
  IF Len(uris) = 0 THEN [map |-> map, error |-> NoError]
  ELSE IF Head(uris) \in DOMAIN map
    THEN [map |-> map,
          error |-> "Resource " \o Head(uris) \o " is already registered by another plugin"]
  ELSE SetResources(MapSet(map, Head(uris), [plugin |-> o]), o, Tail(uris))

Registered(op, name, o, collision, message) ==
  lastReg' = [op |-> op, name |-> name, object |-> o, ok |-> (message = NoError),
              collision |-> collision, message |-> message, before |-> Registry,
              prior |-> IF op = "unregister" /\ lastReg.op = "register" /\ lastReg.ok
                           /\ lastReg.name = name
                        THEN lastReg.before ELSE NoRegistry]

\* PluginManager.register(plugin)
register(o) ==
  /\ LET plugin == Plugin(o)
         t == SetTools(tools, o, plugin.tools)
         rr == SetResources(resources, o, plugin.resources)
     IN IF plugin.name = ""
        THEN /\ Registered("register", plugin.name, o, FALSE, "Plugin must have a name")
             /\ UNCHANGED registryVars
        ELSE IF plugin.name \in DOMAIN plugins
        THEN /\ Registered("register", plugin.name, o, FALSE,
                           "Plugin " \o plugin.name \o " is already registered")
             /\ UNCHANGED registryVars
        ELSE IF t.error # NoError
        THEN /\ Registered("register", plugin.name, o, TRUE, t.error)
             /\ tools' = t.map
             /\ UNCHANGED <<plugins, resources>>
        ELSE IF rr.error # NoError
        THEN /\ Registered("register", plugin.name, o, TRUE, rr.error)
             /\ tools' = t.map
             /\ resources' = rr.map
             /\ UNCHANGED plugins
        ELSE /\ Registered("register", plugin.name, o, FALSE, NoError)
             /\ tools' = t.map
             /\ resources' = rr.map
             /\ plugins' = MapSet(plugins, plugin.name, o)
  /\ UNCHANGED <<sessionVars, kernelVars, calls, last, execVars, storeVars, server>>

\* every entry is dropped, whoever owns it
RemoveOwned_All(map, plugin) == [k \in {} |-> map[k]]

\* the loops of unregister: delete the entries whose plugin is the one being removed
RemoveOwned(map, plugin) == [k \in {k \in DOMAIN map : map[k].plugin # plugin} |-> map[k]]

\* PluginManager.unregister(pluginName)
unregister(pluginName) ==
  /\ IF pluginName \notin DOMAIN plugins
     THEN /\ Registered("unregister", pluginName, "", FALSE,
                        "Plugin " \o pluginName \o " not found")
          /\ UNCHANGED registryVars
     ELSE /\ Registered("unregister", pluginName, plugins[pluginName], FALSE, NoError)
          /\ tools' = RemoveOwned(tools, plugins[pluginName])
          /\ resources' = RemoveOwned(resources, plugins[pluginName])
          /\ plugins' = MapDelete(plugins, pluginName)
  /\ UNCHANGED <<sessionVars, kernelVars, calls, last, execVars, storeVars, server>>

NextRegistry ==
  \/ \E o \in PluginObjects : register(o)
  \/ \E pluginName \in PluginNames : unregister(pluginName)

(***************************************************************************)
(* The snapshot store of SecurityManager (security-manager.js).  A file    *)
(* holds bytes; createSnapshot reads it as a UTF-8 string and              *)
(* restoreSnapshot writes that string back.  A snapshot id names the file  *)
(* <snapshotDir>/<id>.json.                                                *)
(***************************************************************************)
\* createSnapshot calls in one behaviour
MaxSnapshots == 1
\* S_IFREG, the file-type bits that stats.mode carries besides the permissions
RegularFile == 32768
\* the permission bits of a mode are mode % PermissionBits
PermissionBits == 4096
\* 0644 and 0444
Modes == {420, 292}
\* the byte 'a', and a byte that is not valid UTF-8
Contents == {<<97>>, <<255>>}

Paths == {"/etc/a", "/etc/b"}

Absent == [kind |-> "absent"]

File(content, mode) == [kind |-> "file", content |-> content, mode |-> mode]

\* what other programs make of a path: "/etc/a" is rewritten, chmod-ed and removed,
\* "/etc/b" is a text file that is created and removed
FileStates(p) ==
  IF p = "/etc/a" THEN {Absent} \cup {File(c, m) : c \in Contents, m \in Modes}
  ELSE {Absent, File(<<97>>, 420)}

RECURSIVE Utf8Decode(_)
\* buffer.toString('utf8'): EF BF BD is U+FFFD, a byte below 128 is itself, any other
\* byte of these files is malformed and decodes to U+FFFD
Utf8Decode(bytes) ==
  IF Len(bytes) = 0 THEN <<>>
  ELSE IF Len(bytes) >= 3 /\ SubSeq(bytes, 1, 3) = <<239, 191, 189>>
    THEN <<65533>> \o Utf8Decode(SubSeq(bytes, 4, Len(bytes)))
  ELSE IF Head(bytes) < 128 THEN <<Head(bytes)>> \o Utf8Decode(Tail(bytes))
  ELSE <<65533>> \o Utf8Decode(Tail(bytes))

RECURSIVE Utf8Encode(_)
\* the bytes fs.writeFile writes for a string
Utf8Encode(chars) ==
  IF Len(chars) = 0 THEN <<>>
  ELSE IF Head(chars) < 128 THEN <<Head(chars)>> \o Utf8Encode(Tail(chars))
  ELSE <<239, 191, 189>> \o Utf8Encode(Tail(chars))

\* the record file exists and its JSON text is not complete
Partial == [state |-> "partial"]

\* one element of snapshot.files; `original` is not part of the record: it is the bytes
\* the file held when it was captured
Captured(f) ==
  [content |-> Utf8Decode(f.content), mode |-> RegularFile + f.mode, original |-> f.content]

\* the snapshot object createSnapshot builds from the files of `paths` that exist
Snapshot(id, paths) ==
  [state |-> "complete", id |-> id,
   files |-> [p \in {q \in paths : files[q].kind = "file"} |-> Captured(files[p])]]

\* fs.writeFile succeeds on a path that does not exist, on a file the owner may write,
\* and for root
Writable(f) == f.kind = "absent" \/ execConfig.uid = 0 \/ f.mode = 420

\* the file is opened for appending
RestoreFile_Append(f, entry) ==
  IF ~Writable(f) THEN f
  ELSE File((IF f.kind = "file" THEN f.content ELSE <<>>) \o Utf8Encode(entry.content),
            entry.mode % PermissionBits)

\* one turn of the loop of restoreSnapshot: writeFile then chmod; an error of writeFile
\* is caught and logged, and the file is left as it is
RestoreFile(f, entry) ==
  IF ~Writable(f) THEN f
  ELSE File(Utf8Encode(entry.content), entry.mode % PermissionBits)

\* the loop is left at the first entry that cannot be written
RestoreFiles_FailFast(fs, snapshot) ==
  IF \E q \in DOMAIN snapshot.files : ~Writable(fs[q]) THEN fs
  ELSE [p \in Paths |-> IF p \in DOMAIN snapshot.files
                        THEN File(Utf8Encode(snapshot.files[p].content),
                                  snapshot.files[p].mode % PermissionBits)
                        ELSE fs[p]]

\* for (const file of snapshot.files) { try { ... } catch { log } }
RestoreFiles(fs, snapshot) ==
  [p \in Paths |-> IF p \in DOMAIN snapshot.files
                   THEN RestoreFile(fs[p], snapshot.files[p]) ELSE fs[p]]

NoSnapshots == [i \in {} |-> Partial]

NoSnap ==
  [op |-> "none", id |-> 0, ok |-> TRUE, message |-> NoError, changed |-> FALSE,
   repeat |-> FALSE, wasDeleted |-> FALSE, listed |-> {}]

StoreIdle ==
  /\ files = [p \in Paths |-> Absent]
  /\ snapshots = NoSnapshots
  /\ creating = NoSnapshots
  /\ deleted = {}
  /\ lastSnap = NoSnap

\* ids 1..MaxSnapshots are issued by uuidv4; 0 is an id that was never issued
SnapshotIds == 0..MaxSnapshots

UsedIds == DOMAIN snapshots \cup DOMAIN creating \cup deleted

\* an id that was deleted may be issued again
snapshotId_Reused ==
  Min({n \in 1..(MaxSnapshots + 1) : n \notin DOMAIN snapshots \cup DOMAIN creating})

\* const snapshotId = uuidv4(): an id that was never issued before
snapshotId == Min({n \in 1..(Cardinality(UsedIds) + 1) : n \notin UsedIds})

NotFound(id) == "Snapshot not found: " \o ToString(id)

Returned(op, id, message, changed) ==
  lastSnap' = [op |-> op, id |-> id, ok |-> (message = NoError), message |-> message,
               changed |-> changed,
               repeat |-> (op = "restore" /\ lastSnap.op = "restore" /\ lastSnap.ok
                           /\ lastSnap.id = id),
               wasDeleted |-> id \in deleted,
               listed |-> IF op = "list"
                          THEN {i \in DOMAIN snapshots : snapshots[i].state = "complete"}
                          ELSE {}]

\* createSnapshot up to the point where fs.writeJson has opened the record file: the
\* files are captured, and <snapshotDir>/<id>.json exists with none or part of its text
createSnapshot(paths) ==
  /\ snapshotId <= MaxSnapshots
  /\ snapshots' = MapSet(snapshots, snapshotId, Partial)
  /\ creating' = MapSet(creating, snapshotId, Snapshot(snapshotId, paths))
  /\ UNCHANGED <<files, deleted, lastSnap, protoVars, execVars, lastReg, server>>

\* fs.writeJson finishes and createSnapshot returns the id; text written to a record
\* file that was removed meanwhile is lost with it
writeJson(id) ==
  /\ id \in DOMAIN creating
  /\ snapshots' = IF id \in DOMAIN snapshots THEN MapSet(snapshots, id, creating[id])
                  ELSE snapshots
  /\ creating' = MapDelete(creating, id)
  /\ Returned("create", id, NoError, FALSE)
  /\ UNCHANGED <<files, deleted, protoVars, execVars, lastReg, server>>

\* the server process dies while createSnapshot calls are writing, and is started again
Crash ==
  /\ creating # NoSnapshots
  /\ creating' = NoSnapshots
  /\ Returned("crash", 0, NoError, FALSE)
  /\ UNCHANGED <<files, snapshots, deleted, protoVars, execVars, lastReg, server>>

\* SecurityManager.restoreSnapshot, run without a concurrent writer of the files
restoreSnapshot(id) ==
  /\ IF id \notin DOMAIN snapshots
     THEN /\ Returned("restore", id, NotFound(id), FALSE)
          /\ UNCHANGED files
     ELSE IF snapshots[id] = Partial
     THEN \* fs.readJson throws on the incomplete text
          /\ Returned("restore", id, "Unexpected end of JSON input", FALSE)
          /\ UNCHANGED files
     ELSE /\ files' = RestoreFiles(files, snapshots[id])
          /\ Returned("restore", id, NoError, files' # files)
  /\ UNCHANGED <<snapshots, creating, deleted, protoVars, execVars, lastReg, server>>

\* SecurityManager.deleteSnapshot
deleteSnapshot(id) ==
  /\ IF id \notin DOMAIN snapshots
     THEN /\ Returned("delete", id, NotFound(id), FALSE)
          /\ UNCHANGED <<snapshots, deleted>>
     ELSE /\ snapshots' = MapDelete(snapshots, id)
          /\ deleted' = deleted \cup {id}
          /\ Returned("delete", id, NoError, FALSE)
  /\ UNCHANGED <<files, creating, protoVars, execVars, lastReg, server>>

\* SecurityManager.listSnapshots: a record that does not parse is skipped
listSnapshots ==
  /\ Returned("list", 0, NoError, FALSE)
  /\ UNCHANGED <<files, snapshots, creating, deleted, protoVars, execVars, lastReg, server>>

\* some other program creates, rewrites, chmods or removes a file
ExternalWrite(p, f) ==
  /\ files[p] # f
  /\ files' = [files EXCEPT ![p] = f]
  /\ Returned("write", 0, NoError, TRUE)
  /\ UNCHANGED <<snapshots, creating, deleted, protoVars, execVars, lastReg, server>>

NextStore ==
  \/ \E paths \in SUBSET Paths : createSnapshot(paths)
  \/ \E id \in SnapshotIds : writeJson(id)
  \/ Crash
  \/ \E id \in SnapshotIds : restoreSnapshot(id)
  \/ \E id \in SnapshotIds : deleteSnapshot(id)
  \/ listSnapshots
  \/ \E p \in Paths : \E f \in FileStates(p) : ExternalWrite(p, f)

(***************************************************************************)
(* The server: requests arrive in any order and interleave with the        *)
(* settling of admitted calls.                                             *)
(***************************************************************************)
WithMethod(envelopes, m) == {e \in envelopes : Get(e, "method") = Str(m)}

Next ==
  \/ \E request \in MalformedEnvelopes : HandleInvalidRequest(request)
  \/ \E request \in WithMethod(Envelopes, "foo/bar") : HandleUnknownMethod(request)
  \/ \E request \in WithMethod(Envelopes, "initialize") : handleInitialize(request)
  \/ \E request \in WithMethod(Envelopes, "initialized") : handleInitialized(request)
  \/ \E request \in WithMethod(Envelopes, "tools/list") : handleToolsList(request)
  \/ \E request \in WithMethod(Envelopes, "resources/list") : handleResourcesList(request)
  \/ \E request \in WithMethod(Envelopes, "completion/complete") : handleCompletion(request)
  \/ \E request \in WithMethod(Envelopes, "tools/call"),
        auditThrows \in SUBSET {"operation_start", "operation_failure"} :
       handleToolCall(request, auditThrows)
  \/ \E request \in WithMethod(Envelopes, "resources/read"),
        auditThrows \in SUBSET {"operation_start", "operation_failure"} :
       handleResourceRead(request, auditThrows)
  \/ \E opId \in DOMAIN calls, outcome \in HandlerOutcomes,
        auditThrows \in SUBSET {"operation_success", "operation_failure"} :
       OperationSettles(opId, outcome, auditThrows)

vars == <<protoVars, execVars, lastReg, storeVars, server>>

\* one client session against a kernel that admits one operation at a time
Init ==
  /\ InitProtocol
  /\ securityConfig.maxConcurrentOperations = Num(1)
  /\ ExecutorIdle
  /\ RegistryIdle
  /\ StoreIdle

Spec == Init /\ [][Next]_vars

(***************************************************************************)
(* The audit kernel under load: after the handshake, clients issue         *)
(* overlapping tools/call and resources/read requests against every        *)
(* configured limit.                                                       *)
(***************************************************************************)
KernelEnvelopes ==
  {Envelope(Str("2.0"), Str("initialized"), Undefined, Undefined)}
  \cup {Envelope(Str("2.0"), Str("tools/call"), Params(Undefined, Str(n), a, Undefined), Num(7)) :
          n \in {"system_exec", "no_such_tool"},
          a \in {Args(Str("ls"), Undefined, Undefined), Args(Num(42), Undefined, Undefined)}}
  \cup {Envelope(Str("2.0"), Str("resources/read"),
                 Params(Undefined, Undefined, Undefined, Str("system://info")), Num(7))}

NextKernel ==
  \/ \E request \in WithMethod(KernelEnvelopes, "initialized") : handleInitialized(request)
  \/ \E request \in WithMethod(KernelEnvelopes, "tools/call"),
        auditThrows \in SUBSET {"operation_start", "operation_failure"} :
       handleToolCall(request, auditThrows)
  \/ \E request \in WithMethod(KernelEnvelopes, "resources/read"),
        auditThrows \in SUBSET {"operation_start", "operation_failure"} :
       handleResourceRead(request, auditThrows)
  \/ \E opId \in DOMAIN calls, outcome \in HandlerOutcomes,
        auditThrows \in SUBSET {"operation_success", "operation_failure"} :
       OperationSettles(opId, outcome, auditThrows)

\* the protocol side is not used
ProtocolIdle ==
  /\ InitProtocol
  /\ securityConfig = [maxConcurrentOperations |-> Undefined, auditAll |-> Bool(TRUE)]

InitExec == InitExecutor /\ ProtocolIdle /\ RegistryIdle /\ StoreIdle

SpecExec == InitExec /\ [][NextExec]_vars

\* SIGKILL cannot be caught or ignored: a child it was sent to ends
ChildKilled(c) == "SIGKILL" \in exec[c].sent /\ ChildReacts(c, "die")

\* The event loop runs every callback that is due (timers, close events) and time passes;
\* the operating system ends a child that was sent SIGKILL.  Nothing obliges a child to
\* exit by itself or to act on SIGTERM, nor a caller to make a call.
FairExec ==
  /\ WF_vars(Tick)
  /\ \A c \in Calls :
       /\ WF_vars(TimeoutFires(c))
       /\ WF_vars(GraceFires(c))
       /\ WF_vars(Close(c))
       /\ WF_vars(ChildKilled(c))

SpecExecLive == InitExec /\ [][NextExec]_vars /\ FairExec

\* the configurations of a server whose plugins use executeWithSudo: the allowlist may
\* name sudo itself
HostConfigs == ExecConfigs \cup [allowedCommands : {<<"ls", "sudo">>}, uid : {0, 1000}]

InitHost ==
  /\ ProtocolIdle
  /\ execConfig \in HostConfigs
  /\ runningProcesses = [p \in {} |-> 0]
  /\ exec = [c \in Calls |-> NoCall]
  /\ RegistryIdle
  /\ StoreIdle

SpecHost == InitHost /\ [][NextHost]_vars

InitKernel == InitProtocol /\ ExecutorIdle /\ RegistryIdle /\ StoreIdle

SpecKernel == InitKernel /\ [][NextKernel]_vars

\* the audit kernel under load in a server that is shut down
NextShutdown ==
  \/ NextKernel
  \/ \E signal \in {"SIGTERM", "SIGINT"} : shutdown(signal)
  \/ \E closeFails \in BOOLEAN : ShutdownCompletes(closeFails)

InitShutdown == InitProtocol /\ ExecutorIdle /\ RegistryIdle /\ StoreIdle

SpecShutdown == InitShutdown /\ [][NextShutdown]_vars

\* plugin handlers validate the arguments they are given
InitValidator == ProtocolIdle /\ ExecutorIdle /\ RegistryIdle /\ StoreIdle

SpecValidator == InitValidator /\ [][NextValidator]_vars

\* plugins are registered and unregistered at run time
InitRegistry == ProtocolIdle /\ ExecutorIdle /\ RegistryIdle /\ StoreIdle

SpecRegistry == InitRegistry /\ [][NextRegistry]_vars

\* the snapshot store, used by a server running as root or as an unprivileged user
InitStore ==
  /\ ProtocolIdle
  /\ execConfig \in {c \in ExecConfigs : c.allowedCommands = <<>>}
  /\ runningProcesses = [p \in {} |-> 0]
  /\ exec = [c \in Calls |-> NoCall]
  /\ RegistryIdle
  /\ StoreIdle

SpecStore == InitStore /\ [][NextStore]_vars

(***************************************************************************)
(* Properties of the protocol state machine.                               *)
(***************************************************************************)
GatedMethods == {Str("tools/list"), Str("tools/call"), Str("resources/list"),
                 Str("resources/read")}

KnownMethods == {Str(m) : m \in MethodNames}

\* a well-formed request was answered and the session flag was false when it was dispatched
AnsweredBeforeInit == last.kind = "response" /\ last.wellFormed /\ ~last.initBefore

\* C1 as stated: every well-formed request whose method is not initialize, initialized or
\* completion/complete, names outside the dispatch table included, gets -32002 while the
\* session flag is false.
C1_Original ==
  (AnsweredBeforeInit
   /\ last.method \notin {Str("initialize"), Str("initialized"), Str("completion/complete")})
  => ErrorCode(last.resp) = -32002

\* C1 amended: while the session flag is false, a well-formed tools/list, tools/call,
\* resources/list or resources/read request gets error -32002, and a well-formed request
\* whose method is not in the dispatch table gets error -32601.
C1_GatedMethodsBeforeInit ==
  AnsweredBeforeInit =>
    /\ last.method \in GatedMethods => ErrorCode(last.resp) = -32002
    /\ last.method \notin KnownMethods => ErrorCode(last.resp) = -32601

C1_Witness ==
  /\ AnsweredBeforeInit
  /\ last.method = Str("tools/list")
  /\ ErrorCode(last.resp) = -32002

C3_OneOfResultOrError ==
  last.kind = "response" =>
    /\ IsResult(last.resp) # IsError(last.resp)
    /\ last.resp.id = last.id \/ last.resp.id = Null

\* a malformed request with id 0 is answered with an error whose id is null
C3_Witness ==
  /\ last.kind = "response"
  /\ ~last.wellFormed
  /\ last.id = Num(0)
  /\ IsError(last.resp)
  /\ last.resp.id = Null

\* C10 as stated: after the handshake a tools/call on a registered tool whose arguments
\* violate the tool's schema gets error -32602, and the handler logic is not run.
C10_Original ==
  (last.kind = "response" /\ last.initBefore /\ last.method = Str("tools/call")
   /\ last.obs.schemaViolated)
  => (ErrorCode(last.resp) = -32602 /\ ~last.obs.handlerStarted)

(***************************************************************************)
(* Properties of the audit kernel.                                         *)
(***************************************************************************)
\* the last event is an executeWithAudit call that arrived while as many admitted
\* operations as the limit were still in flight
ArrivedAtCapacity ==
  /\ last.kind \in {"response", "pending"}
  /\ last.obs.kernel # "none"
  /\ last.obs.exit = "none"
  /\ last.obs.inflightBefore >= maxConcurrentOperations

AdmissionRefused ==
  /\ last.kind = "response"
  /\ last.obs.kernel = "refused"
  /\ IsError(last.resp)
  /\ last.resp.error.message = "Maximum concurrent operations exceeded"
  /\ ~last.obs.callbackInvoked
  /\ ~last.obs.handlerStarted
  /\ last.obs.opId = 0

\* C4: an executeWithAudit call that arrives while maxConcurrentOperations admitted
\* operations are in flight is answered at once with the admission error; it is not left
\* pending, its callback is not invoked, and the operation records and the calls in
\* flight are what they were.
C4_RefusedAtCapacity ==
  [][ArrivedAtCapacity' =>
       (AdmissionRefused' /\ activeOperations' = activeOperations /\ calls' = calls)]_vars

C4_Witness ==
  /\ ArrivedAtCapacity
  /\ AdmissionRefused
  /\ last.obs.inflightBefore = 2
  /\ Cardinality(DOMAIN activeOperations) = 2

\* C5: the operation records are exactly those of the admitted calls that have not
\* settled: a call that has settled, on any exit path, has left no record, and once no
\* call is in flight the map is empty and the next call is admitted.
C5_RecordReleased ==
  /\ DOMAIN activeOperations = DOMAIN calls
  /\ (last.kind = "response" /\ last.obs.kernel = "admitted")
       => last.obs.opId \notin DOMAIN activeOperations
  /\ calls = NoOperations =>
       ~AtCapacity(Cardinality(DOMAIN activeOperations), maxConcurrentOperations)

\* an admitted operation whose success audit call threw has settled and left no record
C5_Witness ==
  /\ last.kind = "response"
  /\ last.obs.kernel = "admitted"
  /\ last.obs.exit = "auditThrew"
  /\ last.obs.handlerStarted
  /\ activeOperations = NoOperations

(***************************************************************************)
(* Properties of the command executor.                                     *)
(***************************************************************************)
\* the call was made with a command that a non-empty allowlist does not contain
OutsideAllowlist(c) ==
  /\ exec[c].pc # "idle"
  /\ Len(execConfig.allowedCommands) > 0
  /\ ~ArrayIncludes(execConfig.allowedCommands, exec[c].command)

\* C6: with a non-empty allowlist, execute with a command that is not in the list is
\* rejected with "Command not allowed: <command>", and nothing is spawned: the call has no
\* child process and no entry in the process table.
C6_DisallowedRejected ==
  \A c \in Calls :
    OutsideAllowlist(c) =>
      /\ exec[c].pc = "settled"
      /\ exec[c].outcome = "rejected"
      /\ exec[c].message = "Command not allowed: " \o exec[c].command
      /\ exec[c].child = "none"
      /\ exec[c].timer = "none"
      /\ c \notin DOMAIN runningProcesses

\* "rm" was refused by the allowlist ["ls"]
C6_Witness ==
  /\ execConfig.allowedCommands = <<"ls">>
  /\ exec[1].command = "rm"
  /\ exec[1].outcome = "rejected"
  /\ exec[1].message = "Command not allowed: rm"

\* C7 as stated: a child running when its deadline expires has been sent SIGTERM, and a
\* child that is still running when the 5 second timer fires has been sent SIGKILL.
C7_Original ==
  \A c \in Calls :
    /\ exec[c].timedOut => "SIGTERM" \in exec[c].sent
    /\ (exec[c].timedOut /\ exec[c].grace = "fired" /\ exec[c].child = "running")
         => "SIGKILL" \in exec[c].sent

\* C8 as stated: once more than 5 seconds have passed since the deadline of a call whose
\* child was running at the deadline, and no close event of the child is waiting to be
\* handled, the child has no entry in the process table and execute has settled without
\* reporting success.
C8_Original ==
  \A c \in Calls :
    (exec[c].timedOut /\ exec[c].late /\ exec[c].child # "exited") =>
      /\ c \notin DOMAIN runningProcesses
      /\ exec[c].pc = "settled"
      /\ ~(exec[c].outcome = "resolved" /\ exec[c].success)

\* C9 as stated: a call whose child ended after being sent SIGTERM at the deadline never
\* resolves with success = true, whatever exit code or signal the child ended with.
C9_Original ==
  \A c \in Calls :
    (exec[c].timedOut /\ exec[c].reacted /\ exec[c].pc = "settled") =>
      ~(exec[c].outcome = "resolved" /\ exec[c].success)

(***************************************************************************)
(* Properties of the plugin registry.                                      *)
(***************************************************************************)
\* C11 as stated: a register call that fails on a tool name or resource uri that is
\* already in the registry leaves the tools, resources and plugins maps as they were
\* before the call.
C11_Original ==
  (lastReg.op = "register" /\ lastReg.collision) =>
    (~lastReg.ok /\ Registry = lastReg.before)

C14_Original ==
  (lastSnap.op = "restore" /\ lastSnap.ok) =>
    \A p \in DOMAIN snapshots[lastSnap.id].files :
      files[p] = File(snapshots[lastSnap.id].files[p].original,
                      snapshots[lastSnap.id].files[p].mode % PermissionBits)

\* C15: after a successful restoreSnapshot(id), and until some other program writes a
\* file, restoring id again changes no file: a second call that directly follows leaves
\* content and mode of every file as the first call left them.
C15_RestoreIdempotent ==
  (lastSnap.op = "restore" /\ lastSnap.ok) =>
    /\ RestoreFiles(files, snapshots[lastSnap.id]) = files
    /\ lastSnap.repeat => ~lastSnap.changed

\* restoreSnapshot ran twice in a row on a snapshot that captured a file, after that file
\* had been rewritten
C15_Witness ==
  /\ lastSnap.op = "restore"
  /\ lastSnap.ok
  /\ lastSnap.repeat
  /\ "/etc/a" \in DOMAIN snapshots[lastSnap.id].files
  /\ files["/etc/a"].kind = "file"
  /\ files["/etc/b"].kind = "file"

\* C16: an id whose deleteSnapshot succeeded has no record any more; every later
\* restoreSnapshot or deleteSnapshot of it fails with "Snapshot not found: <id>" and
\* changes no file, and listSnapshots does not return it; and a complete record is never
\* changed: it stays as written until it is removed.
C16_DeletedStaysDeleted ==
  /\ [](/\ deleted \cap DOMAIN snapshots = {}
        /\ (lastSnap.op \in {"restore", "delete"} /\ lastSnap.wasDeleted)
             => (/\ ~lastSnap.ok
                 /\ lastSnap.message = NotFound(lastSnap.id)
                 /\ ~lastSnap.changed)
        /\ lastSnap.op = "list" => lastSnap.listed \cap deleted = {})
  /\ [][\A id \in DOMAIN snapshots :
          snapshots[id] # Partial =>
            (id \notin DOMAIN snapshots' \/ snapshots'[id] = snapshots[id])]_vars

\* snapshot 1 was deleted and a restore of it was refused
C16_Witness ==
  /\ 1 \in deleted
  /\ lastSnap.op = "restore"
  /\ lastSnap.id = 1
  /\ lastSnap.wasDeleted
  /\ lastSnap.message = "Snapshot not found: 1"

\* C17 as stated: the file <snapshotDir>/<id>.json never holds a partially written
\* record.
C17_Original == \A id \in DOMAIN snapshots : snapshots[id] # Partial

(***************************************************************************)
(* Properties of the error codes.                                          *)
(***************************************************************************)
\* C18 as stated: a tools/call or resources/read refused by the admission check gets an
\* error envelope with code -30001.
C18_Original ==
  (last.kind = "response" /\ last.obs.kernel = "refused") => ErrorCode(last.resp) = -30001

\* C19 as stated: a tools/call whose handler was refused the command "rm" by the command
\* executor gets an error envelope with code -31001 and message "Command not allowed: rm".
C19_Original ==
  (last.kind = "response" /\ last.method = Str("tools/call") /\ last.obs.handlerStarted
   /\ last.obs.exit = "threw") =>
    (/\ ErrorCode(last.resp) = -31001
     /\ last.resp.error.message = "Command not allowed: rm")

\* C20 as stated: a malformed request is answered with code -32600 and with the request's
\* id when it has one, else null, and the session and the registry are left unchanged.
C20_Original ==
  [][(last'.kind = "response" /\ ~last'.wellFormed) =>
       (/\ ErrorCode(last'.resp) = -32600
        /\ last'.resp.id = (IF last'.id # Undefined THEN last'.id ELSE Null)
        /\ UNCHANGED <<sessionVars, registryVars>>)]_vars

(***************************************************************************)
(* Properties of requests that name no target.                             *)
(***************************************************************************)
\* C21 as stated: after the handshake, a tools/call without a name or a resources/read
\* without a uri, a request without params included, is answered with code -32602, is not
\* admitted by the audit kernel and reaches no plugin.
C21_Original ==
  (last.kind = "response" /\ last.initBefore /\ last.obs.targetMissing) =>
    (/\ ErrorCode(last.resp) = -32602
     /\ last.obs.kernel = "none"
     /\ ~last.obs.callbackInvoked)

(***************************************************************************)
(* Properties of shutdown and of killAllProcesses.                         *)
(***************************************************************************)
\* C22 as stated: a graceful shutdown runs killAllProcesses and then the plugin cleanup
\* hooks before the process exits; so when the process has exited, every child that is
\* still running has been sent SIGTERM and the plugin registry has been cleared.
C22_Original ==
  server = "exited" =>
    /\ \A c \in DOMAIN runningProcesses : exec[c].child = "running" => "SIGTERM" \in exec[c].sent
    /\ DOMAIN plugins = {}

\* C23 as stated: killAllProcesses sends SIGTERM to every child in the process table and
\* resolves only when those children have terminated.
C23_Original ==
  [][killAllProcesses =>
       \A c \in DOMAIN runningProcesses :
         /\ exec[c].child = "running" => "SIGTERM" \in exec'[c].sent
         /\ exec'[c].child # "running"]_vars

Admitted == last.kind # "none" /\ last.obs.kernel = "admitted"

\* the operation callback of the last request resolved / threw
CallbackResolved ==
  last.obs.exit = "resolved" \/ (last.obs.exit = "auditThrew" /\ last.obs.callbackInvoked)

CallbackThrew == last.obs.exit = "threw"

\* C25 as stated: for an admitted operation, executeWithAudit writes audit events when
\* security.auditAll is configured true and writes none when it is configured false.
C25_Original ==
  Admitted =>
    /\ securityConfig.auditAll = Bool(TRUE) => (last.obs.audit # <<>> \/ last.obs.sinkThrew)
    /\ securityConfig.auditAll = Bool(FALSE) => last.obs.audit = <<>>

Conforms(type, value) ==
  CASE type = "string" -> value.t = "string"
    [] type = "integer" -> value.t = "number" /\ "over" \notin DOMAIN value
    [] type = "number" -> value.t = "number"
    [] type = "boolean" -> value.t = "boolean"
    [] type = "object" -> value.t = "object"
    [] type = "array" -> value.t = "array"

\* C29 as stated: validateArgs accepts an argument exactly when its dynamic type is the
\* declared one of string, integer, number, boolean, object, array.
C29_Original ==
  last.kind = "validated" => (last.error = NoError <=> Conforms(last.type, last.value))

(***************************************************************************)
(* Properties of executeWithSudo and of the handshake.                     *)
(***************************************************************************)
\* spawn() was called for call `c`
SpawnAttempted(c) ==
  exec[c].child # "none" \/ exec[c].message = "Failed to spawn process: spawn ENOENT"

C27_Original ==
  (last.kind = "response" /\ last.wellFormed /\ last.method = Str("initialized")) =>
    /\ initialized
    /\ last.id # Undefined
    /\ last.resp = createResponse(EmptyObj, last.id)

\* C28 as stated: once an initialize has recorded the client's info, a later initialize
\* leaves clientInfo as it is.
C28_Original == [][clientInfo # Null => clientInfo' = clientInfo]_vars

OwnedBy(map, o, names) ==
  {names[i] : i \in {j \in 1..Len(names) : names[j] \in DOMAIN map /\ map[names[j]].plugin = o}}

SeqRange(names) == {names[i] : i \in 1..Len(names)}

\* C32 as stated: whenever tools/list, resources/list, tools/call or resources/read looks
\* at the registry, it holds either none or all of a plugin's tools and resources.
C32_Original ==
  \A o \in PluginObjects :
    LET mine == OwnedBy(tools, o, Plugin(o).tools) \cup OwnedBy(resources, o, Plugin(o).resources)
    IN mine = {} \/ mine = SeqRange(Plugin(o).tools) \cup SeqRange(Plugin(o).resources)

\* C35 as stated: every entry of the tools map and of the resources map is owned by a
\* plugin that is in the plugins map.
C35_Original ==
  /\ \A k \in DOMAIN tools : \E n \in DOMAIN plugins : plugins[n] = tools[k].plugin
  /\ \A u \in DOMAIN resources : \E n \in DOMAIN plugins : plugins[n] = resources[u].plugin

(***************************************************************************)
(* Properties of admission across shutdown.                                *)
(***************************************************************************)
\* C33: in every reachable state, at most maxConcurrentOperations operations have been
\* admitted by executeWithAudit and have not settled, also after the shutdown handler has
\* called SecurityManager.cleanup() while operations were in flight.
C33_InFlightBounded == Cardinality(DOMAIN calls) <= maxConcurrentOperations

\* cleanup() emptied the operation map while two admitted operations were in flight
C33_Witness ==
  /\ server = "exited"
  /\ Cardinality(DOMAIN calls) = 2
  /\ maxConcurrentOperations = 2
  /\ activeOperations = NoOperations

(***************************************************************************)
(* Properties of the allowlist across execute and executeWithSudo.         *)
(***************************************************************************)
\* the command the caller asked to run
TargetCommand(c) == IF exec[c].sudoOf # "" THEN exec[c].sudoOf ELSE exec[c].command

\* C34 as stated: with a non-empty allowlist, spawn() is never called to run a target
\* command that is not in the allowlist, whether it was asked for through execute or
\* through executeWithSudo.
C34_Original ==
  \A c \in Calls :
    (Len(execConfig.allowedCommands) > 0 /\ SpawnAttempted(c))
      => ArrayIncludes(execConfig.allowedCommands, TargetCommand(c))

(***************************************************************************)
(* Properties of the process table.                                        *)
(***************************************************************************)
\* call `c` was refused before spawnProcess: by validateCommand or by the root check
RefusedBeforeSpawn(call) ==
  call.pc = "settled" /\ call.child = "none" /\ call.timer = "none"

\* C36: an entry of the process table belongs to a call that has not settled, so every
\* way a call settles (exit code 0 or not, death by a signal, a spawn error, a kill through
\* killProcess) leaves the table without its entry; a call refused before spawnProcess
\* leaves the table as it was; killProcess on an id that is not in the table returns false
\* and changes nothing.
C36_TableFollowsCalls ==
  [][\A c \in Calls :
       /\ c \in DOMAIN runningProcesses' <=> exec'[c].pc = "spawned"
       /\ (exec[c].pc = "idle" /\ RefusedBeforeSpawn(exec'[c]))
            => runningProcesses' = runningProcesses
       /\ (killProcess(c) /\ c \notin DOMAIN runningProcesses)
            => (~killProcessReturns(c) /\ UNCHANGED vars)]_vars

\* a call that killProcess ended has settled and its entry is gone
C36_Witness ==
  \E c \in Calls :
    /\ exec[c].pc = "settled"
    /\ exec[c].exitSignal = Str("SIGTERM")
    /\ exec[c].timer = "cleared"
    /\ c \notin DOMAIN runningProcesses

(***************************************************************************)
(* Properties of restoreSnapshot's loop over the file entries.             *)
(***************************************************************************)
\* the record of `id` is there and fs.readJson can read it
Readable(id) == id \in DOMAIN snapshots /\ snapshots[id].state = "complete"

\* C37: restoreSnapshot is best-effort per file entry: whenever the record can be read
\* the call returns true, and every entry whose file can be written is written back with
\* its recorded content and mode, whether or not another entry of the record fails.
C37_BestEffort ==
  [][\A id \in SnapshotIds :
       (restoreSnapshot(id) /\ Readable(id)) =>
          /\ lastSnap'.ok
          /\ \A p \in DOMAIN snapshots[id].files :
               Writable(files[p]) =>
                 files'[p] = File(Utf8Encode(snapshots[id].files[p].content),
                                  snapshots[id].files[p].mode % PermissionBits)]_vars

\* a restore returned true having written "/etc/b" back while "/etc/a", an entry of the
\* same record, is read-only for the process and keeps other bytes than the recorded ones
C37_Witness ==
  /\ lastSnap.op = "restore"
  /\ lastSnap.ok
  /\ lastSnap.changed
  /\ DOMAIN snapshots[lastSnap.id].files = {"/etc/a", "/etc/b"}
  /\ ~Writable(files["/etc/a"])
  /\ files["/etc/a"].content # Utf8Encode(snapshots[lastSnap.id].files["/etc/a"].content)
  /\ files["/etc/b"] = File(<<97>>, 420)

(***************************************************************************)
(* Properties of validateArgs on a property that declares a range.         *)
(***************************************************************************)
\* the value lies in the inclusive range the property declares
InRange(value) == QualityMinimum <= value.n /\ value.n <= QualityMaximum

\* C38 as stated: for a property that declares minimum and maximum, the validator accepts
\* a numeric value exactly when it lies within the inclusive range.
C38_Original ==
  last.kind = "ranged" => (last.error = NoError <=> InRange(last.value))

(***************************************************************************)
(* Properties of the session flag.                                         *)
(***************************************************************************)
\* C39: the initialized flag is false at start; a request that is dispatched while the
\* flag is true leaves it true, so it never returns to false; the flag is true after a
\* request dispatched while it was false only if that request was `initialized`; handling
\* `initialize` leaves the flag as it was, and tools/list handled while it is false is
\* answered with -32002.
C39_FlagSetOnlyByInitialized ==
  IF last = NoLast THEN ~initialized
  ELSE /\ last.initBefore => initialized
       /\ (initialized /\ ~last.initBefore)
            => (last.wellFormed /\ last.method = Str("initialized"))
       /\ last.method = Str("initialize") => initialized = last.initBefore
       /\ (last.wellFormed /\ last.method = Str("tools/list") /\ ~last.initBefore)
            => ErrorCode(last.resp) = -32002

\* `initialize` was handled, `initialized` was not, and tools/list has just been refused
C39_Witness ==
  /\ ~initialized
  /\ clientInfo # Null
  /\ last.kind # "none"
  /\ last.method = Str("tools/list")
  /\ ErrorCode(last.resp) = -32002

====
